---- MODULE Spec2Model ----
(***************************************************************************)
(* Model of the ginprocess and ginwebapp collectors of windows_exporter.   *)
(*                                                                         *)
(*   GinProcessCollector  Collect, in its form with the five labels pid,   *)
(*                        name, username, cmdline, status.  The form with  *)
(*                        the labels pid, name alone                       *)
(*                        (pkg/collector/ginprocess.go) has the same steps *)
(*                        without the three other label reads: it is the   *)
(*                        five-label form with those reads always          *)
(*                        succeeding (NameEnv below).                      *)
(*   GinWebAppCollector   Build, Collect, normalizeAspNetInstanceName,     *)
(*                        formatPID                                        *)
(*                                                                         *)
(* Go strings are sequences of one-character strings, so that the string   *)
(* functions (ToLower, Contains, ReplaceAll, FormatUint, Itoa) are         *)
(* computed character by character as the library computes them.           *)
(***************************************************************************)
EXTENDS Integers, Sequences, FiniteSets, TLC

VARIABLES
    cpuPercent,   \* GinProcessCollector.cpuPercent: the series of the gauge vector
    memoryMB,     \* GinProcessCollector.memoryMB:   the series of the gauge vector
    call,         \* per Collect invocation of GinProcessCollector: position, locals, history
    aspNetColl,   \* GinWebAppCollector.aspNetColl  (Nil or a live handle)
    processColl,  \* GinWebAppCollector.processColl
    netClrColl,   \* GinWebAppCollector.netClrColl
    web,          \* GinWebAppCollector: lifecycle position, Build/Collect locals, history
    fn            \* the last call of a pure function: name, argument, result

vars == <<cpuPercent, memoryMB, call, aspNetColl, processColl, netClrColl, web, fn>>

procVars == <<cpuPercent, memoryMB, call>>
webVars == <<aspNetColl, processColl, netClrColl, web>>

-----------------------------------------------------------------------------
(* Bounds of the model.                                                    *)

\* processes a snapshot of process.Processes() may hold
MaxProcs == 2
\* pieces an instance identity handed to normalizeAspNetInstanceName is built of
MaxParts == 3
\* records one counter sample may hold
MaxRecords == 2
\* float inputs of formatPID are (+/-) mant * 2^exp, mant in 0..MaxMant (and 4123)
MaxMant == 5
\* ... with exp in -MaxFracBits..MaxExp
MaxFracBits == 2
MaxExp == 65

-----------------------------------------------------------------------------
(* Strings.                                                                *)

Nil == "nil"

RECURSIVE Concat(_)
\* the concatenation of a sequence of strings
Concat(ss) == IF ss = <<>> THEN <<>> ELSE Head(ss) \o Concat(Tail(ss))

Drop(s, n) == SubSeq(s, n + 1, Len(s))

\* strings.HasPrefix
HasPrefix(s, prefix) ==
    /\ Len(s) >= Len(prefix)
    /\ SubSeq(s, 1, Len(prefix)) = prefix

\* strings.Contains
Contains(s, substr) ==
    \E i \in 0..(Len(s) - Len(substr)) : SubSeq(s, i + 1, i + Len(substr)) = substr

UpperCase == <<"A","B","C","D","E","F","G","H","I","J","K","L","M",
               "N","O","P","Q","R","S","T","U","V","W","X","Y","Z">>
LowerCase == <<"a","b","c","d","e","f","g","h","i","j","k","l","m",
               "n","o","p","q","r","s","t","u","v","w","x","y","z">>

ToLowerChar(c) ==
    IF \E i \in 1..26 : UpperCase[i] = c
    THEN LowerCase[CHOOSE i \in 1..26 : UpperCase[i] = c]
    ELSE c

\* strings.ToLower
ToLower(s) == [i \in 1..Len(s) |-> ToLowerChar(s[i])]

RECURSIVE ReplaceAll(_, _, _)
\* strings.ReplaceAll(s, old, new) for a non-empty old: the non-overlapping
\* occurrences of old, found from the left, are each replaced by new
ReplaceAll(s, old, new) ==
    IF Len(s) < Len(old) THEN s
    ELSE IF HasPrefix(s, old) THEN new \o ReplaceAll(Drop(s, Len(old)), old, new)
    ELSE <<Head(s)>> \o ReplaceAll(Tail(s), old, new)

Digits == <<"0","1","2","3","4","5","6","7","8","9">>
DigitChar(d) == Digits[d + 1]

RECURSIVE FormatNat(_)
\* the decimal digits of a natural number of machine-int size
FormatNat(n) == IF n < 10 THEN <<DigitChar(n)>> ELSE FormatNat(n \div 10) \o <<DigitChar(n % 10)>>

\* strconv.Itoa
Itoa(i) == IF i < 0 THEN <<"-">> \o FormatNat(-i) ELSE FormatNat(i)

-----------------------------------------------------------------------------
(* normalizeAspNetInstanceName and the two instance filters.               *)

RootSiteToken == <<"_","L","M","_","W","3","S","V","C","_","1","_","R","O","O","T","_">>
SiteToken == <<"_","L","M","_","W","3","S","V","C","_">>
SitePrefix == <<"s","i","t","e","_">>
TotalMarker == <<"_","_","t","o","t","a","l","_","_">>
GlobalMarker == <<"_","G","l","o","b","a","l","_">>

normalizeAspNetInstanceName(name) ==
    ReplaceAll(ReplaceAll(name, RootSiteToken, <<>>), SiteToken, SitePrefix)

\* part_001:140  strings.Contains(strings.ToLower(d.Name), "__total__")
IsAspNetTotal(name) == Contains(ToLower(name), TotalMarker)

\* part_001:229  strings.Contains(d.Name, "_Global_")
IsClrGlobal(name) == Contains(name, GlobalMarker)

-----------------------------------------------------------------------------
(* formatPID: uint64(f) and strconv.FormatUint(_, 10).                     *)
(*                                                                         *)
(* A float64 is (+/-) mant * 2^exp (exact for the small mantissas used),   *)
(* +/-Inf or NaN.  A uint64 is four 16-bit limbs, least significant first, *)
(* so that the 64-bit width is kept with machine-int arithmetic.           *)

LimbBase == 65536
LimbBits == 16
NumLimbs == 4

RECURSIVE Pow2(_)
Pow2(n) == IF n = 0 THEN 1 ELSE 2 * Pow2(n - 1)

Finite(neg, mant, exp) == [kind |-> "finite", neg |-> neg, mant |-> mant, exp |-> exp]
Inf(neg) == [kind |-> "inf", neg |-> neg, mant |-> 0, exp |-> 0]
NaN == [kind |-> "nan", neg |-> FALSE, mant |-> 0, exp |-> 0]

ZeroU64 == [i \in 1..NumLimbs |-> 0]
MaxU64 == [i \in 1..NumLimbs |-> LimbBase - 1]
\* 0x8000000000000000, the "integer indefinite" value of the x86 conversions
SignBitU64 == [i \in 1..NumLimbs |-> IF i = NumLimbs THEN LimbBase \div 2 ELSE 0]

\* |f| with the fraction discarded, as limbs; ovf when it does not fit 64 bits
Truncate(f) ==
    IF f.exp < 0
    THEN LET m == f.mant \div Pow2(-f.exp)
         IN  [ovf |-> FALSE,
              limbs |-> [i \in 1..NumLimbs |->
                            IF i = 1 THEN m % LimbBase
                            ELSE IF i = 2 THEN m \div LimbBase ELSE 0]]
    ELSE LET k == f.exp \div LimbBits
             v == f.mant * Pow2(f.exp % LimbBits)
             lo == v % LimbBase
             hi == v \div LimbBase
         IN  [ovf |-> (lo > 0 /\ k >= NumLimbs) \/ (hi > 0 /\ k + 1 >= NumLimbs),
              limbs |-> [i \in 1..NumLimbs |->
                            IF i = k + 1 THEN lo ELSE IF i = k + 2 THEN hi ELSE 0]]

RECURSIVE AddOne(_, _)
\* limbs + 1 from limb i on, modulo 2^64
AddOne(u, i) ==
    IF i > NumLimbs THEN u
    ELSE IF u[i] = LimbBase - 1 THEN AddOne([u EXCEPT ![i] = 0], i + 1)
    ELSE [u EXCEPT ![i] = u[i] + 1]

\* 2^64 - u: what a signed conversion reinterpreted as unsigned gives for -u
TwosComplement(u) == AddOne([i \in 1..NumLimbs |-> LimbBase - 1 - u[i]], 1)

\* uint64(f).  The fraction is discarded; when the truncated value is not a
\* uint64 (negative, too large, Inf, NaN) the Go specification leaves the result
\* implementation-dependent: every outcome a build produces is possible.
ConvertUint64(f) ==
    LET t == Truncate(f)
        unrepresentable == {ZeroU64, MaxU64, SignBitU64}
    IN  IF f.kind # "finite" THEN unrepresentable
        ELSE IF t.ovf THEN unrepresentable
        ELSE IF f.neg /\ t.limbs # ZeroU64
             THEN unrepresentable \cup {TwosComplement(t.limbs)}
        ELSE {t.limbs}

\* u divided by 10, long division from the most significant limb
DivMod10(u) ==
    LET c4 == u[4]
        c3 == (c4 % 10) * LimbBase + u[3]
        c2 == (c3 % 10) * LimbBase + u[2]
        c1 == (c2 % 10) * LimbBase + u[1]
    IN  [q |-> <<c1 \div 10, c2 \div 10, c3 \div 10, c4 \div 10>>, r |-> c1 % 10]

RECURSIVE FormatUintDigits(_)
FormatUintDigits(u) ==
    IF u = ZeroU64 THEN <<>>
    ELSE LET d == DivMod10(u) IN FormatUintDigits(d.q) \o <<DigitChar(d.r)>>

\* strconv.FormatUint(u, 10)
FormatUint(u) == IF u = ZeroU64 THEN <<"0">> ELSE FormatUintDigits(u)

\* strconv.FormatInt(int64(f), 10) in place of FormatUint(uint64(f), 10):
\* a negative input keeps its sign
formatPIDSigned(f) ==
    IF f.kind = "finite" /\ f.neg /\ ~Truncate(f).ovf /\ Truncate(f).limbs # ZeroU64
    THEN {<<"-">> \o FormatUint(Truncate(f).limbs)}
    ELSE {FormatUint(u) : u \in ConvertUint64(f)}

\* formatPID(f): the strings the call may return
formatPID(f) == {FormatUint(u) : u \in ConvertUint64(f)}

-----------------------------------------------------------------------------
(* Pure-function harness: a behaviour makes one call, of                   *)
(* normalizeAspNetInstanceName or of formatPID, on an input drawn from a   *)
(* bounded set.                                                            *)

IdentityPieces ==
    { RootSiteToken, SiteToken,
      <<"M","y","A","p","p">>, SitePrefix, <<"2">>,
      <<"_","L","M","_","W","3">>, <<"S","V","C","_">>,
      <<"_","_","T","o","t","a","l","_","_">> }

RECURSIVE SeqsUpTo(_, _)
\* the non-empty sequences over S of length at most n
SeqsUpTo(S, n) ==
    IF n = 0 THEN {}
    ELSE LET shorter == SeqsUpTo(S, n - 1)
         IN  {<<x>> : x \in S} \cup shorter \cup {<<x>> \o t : x \in S, t \in shorter}

Identities == {Concat(ps) : ps \in SeqsUpTo(IdentityPieces, MaxParts)}

Mantissas == (0..MaxMant) \cup {4123}
Floats ==
    {Finite(neg, m, e) : neg \in BOOLEAN, m \in Mantissas, e \in (-MaxFracBits)..MaxExp}
    \cup {Inf(FALSE), Inf(TRUE), NaN}

FnInit == fn = [name |-> "none", arg |-> <<>>, res |-> <<>>]

CallNormalize ==
    /\ fn.name = "none"
    /\ \E name \in Identities :
          fn' = [name |-> "normalizeAspNetInstanceName", arg |-> name,
                 res |-> normalizeAspNetInstanceName(name)]
    /\ UNCHANGED <<procVars, webVars>>

CallFormatPID ==
    /\ fn.name = "none"
    /\ \E f \in Floats : \E s \in formatPID(f) :
          fn' = [name |-> "formatPID", arg |-> f, res |-> s]
    /\ UNCHANGED <<procVars, webVars>>

FnNext == CallNormalize \/ CallFormatPID

-----------------------------------------------------------------------------
(* GinProcessCollector.                                                    *)
(*                                                                         *)
(* A gauge vector is the set of its series [labels, value], one per label  *)
(* tuple.  Each operation on a vector (Reset, WithLabelValues(..).Set,     *)
(* Collect) takes the vector's lock and is one step; a Collect invocation  *)
(* is a sequence of such steps, so that two invocations may interleave.    *)

Callers == {1, 2}

\* float64 values are exact rationals num/den, den a power of two
RECURSIVE Reduce(_)
Reduce(v) ==
    IF v.den > 1 /\ v.num % 2 = 0 /\ v.den % 2 = 0
    THEN Reduce([num |-> v.num \div 2, den |-> v.den \div 2])
    ELSE v

DivFloat(v, d) == Reduce([num |-> v.num, den |-> v.den * d])

\* float64(mem.RSS) / 1024 / 1024
RssToMB(rss) == DivFloat(DivFloat([num |-> rss, den |-> 1], 1024), 1024)

\* what the gopsutil reads of one process may return: (value, error)
Ok(v) == [err |-> FALSE, val |-> v]
Failed(zero) == [err |-> TRUE, val |-> zero]

CpuReading == [num |-> 25, den |-> 2]
RssReading == 100 * 1024 * 1024

\* every outcome of every field read
FullEnv ==
    [ name     |-> {Ok("w3wp"), Failed("")},
      username |-> {Ok("SYSTEM"), Failed("")},
      cmdline  |-> {Ok("w3wp.exe -ap pool"), Failed("")},
      status   |-> {Ok(<<"R">>), Ok(<<>>), Failed(<<>>)},
      cpu      |-> {Ok(CpuReading), Failed([num |-> 0, den |-> 1])},
      mem      |-> {Ok(RssReading), Failed(0)} ]

\* the name, CPU and memory reads may fail; the other label reads succeed
NameEnv ==
    [FullEnv EXCEPT !.username = {Ok("SYSTEM")},
                    !.cmdline = {Ok("w3wp.exe -ap pool")},
                    !.status = {Ok(<<"R">>)}]

\* only the CPU and memory reads may fail
CalmEnv == [NameEnv EXCEPT !.name = {Ok("w3wp")}]

Pids == {99 + i : i \in 1..MaxProcs}

RECURSIVE Ascending(_)
\* the elements of a finite set of integers in ascending order
Ascending(S) ==
    IF S = {} THEN <<>>
    ELSE LET m == CHOOSE x \in S : \A y \in S : x <= y
         IN  <<m>> \o Ascending(S \ {m})

\* process.Processes(): the listing fails, or returns the running processes
ProcessListings ==
    {[err |-> TRUE, procs |-> <<>>]}
    \cup {[err |-> FALSE, procs |-> Ascending(P)] : P \in SUBSET Pids}

NoSeries == [metric |-> "none", labels |-> <<>>]

IdleCall ==
    [ pc    |-> "idle",
      procs |-> <<>>,       \* procs[i:], the processes the loop has still to visit
      cur   |-> Nil,        \* the loop body's locals between its two vector updates
      listed |-> [called |-> FALSE, err |-> FALSE, procs |-> <<>>],
                            \* history: what process.Processes() returned
      reads |-> <<>>,       \* history: per visited process, its pid and read outcomes
      stale |-> NoSeries,   \* history: one series a vector held when the call began
      out   |-> {},         \* the measurements pushed to ch
      err   |-> Nil ]       \* the returned error, once returned

ProcInit ==
    /\ cpuPercent = {}
    /\ memoryMB = {}
    /\ call = [c \in Callers |-> IdleCall]

\* a Reset that leaves the series in place
ResetKeeping(vec) == vec

\* GaugeVec.Reset
Reset(vec) == {}

\* GaugeVec.WithLabelValues(labels...).Set(value)
SetSeries(vec, labels, value) ==
    {s \in vec : s.labels # labels} \cup {[labels |-> labels, value |-> value]}

\* GaugeVec.Collect(ch): every series of the vector, as a measurement
CollectVec(metric, vec) ==
    {[metric |-> metric, labels |-> s.labels, value |-> s.value] : s \in vec}

Keys(metric, vec) == {[metric |-> metric, labels |-> s.labels] : s \in vec}

\* lines 62-63: Collect is entered and resets cpuPercent.  W is the set of
\* series (held by either vector at this moment) the history may remember.
ResetCpu(c, W) ==
    /\ call[c].pc = "idle"
    /\ \E w \in W \cup {NoSeries} :
          call' = [call EXCEPT ![c].pc = "resetMem", ![c].stale = w]
    /\ cpuPercent' = Reset(cpuPercent)
    /\ UNCHANGED <<memoryMB, webVars, fn>>

\* line 64
ResetMem(c) ==
    /\ call[c].pc = "resetMem"
    /\ memoryMB' = Reset(memoryMB)
    /\ call' = [call EXCEPT ![c].pc = "list"]
    /\ UNCHANGED <<cpuPercent, webVars, fn>>

\* the listing's error is dropped and the loop runs over no process
ListedIgnoringError(cl, l) ==
    [cl EXCEPT !.pc = "loop", !.procs = l.procs,
               !.listed = [called |-> TRUE, err |-> l.err, procs |-> l.procs]]

\* lines 66-69: "if err != nil { return err }", else the loop is entered
Listed(cl, l) ==
    IF l.err
    THEN [cl EXCEPT !.pc = "returned", !.err = "EnumerationFailure",
                    !.listed = [called |-> TRUE, err |-> TRUE, procs |-> <<>>]]
    ELSE [cl EXCEPT !.pc = "loop", !.procs = l.procs,
                    !.listed = [called |-> TRUE, err |-> FALSE, procs |-> l.procs]]

\* lines 66-69: process.Processes(); its failure returns the error at once
ListProcesses(c) ==
    /\ call[c].pc = "list"
    /\ \E l \in ProcessListings : call' = [call EXCEPT ![c] = Listed(call[c], l)]
    /\ UNCHANGED <<cpuPercent, memoryMB, webVars, fn>>

\* lines 72-97: the label values of one process
LabelsOf(pid, name, username, cmdline, status) ==
    LET statusList == IF status.err THEN <<"unknown">> ELSE status.val
    IN  << Itoa(pid),
           name.val,
           IF username.err THEN "unknown" ELSE username.val,
           IF cmdline.err THEN "" ELSE cmdline.val,
           IF Len(statusList) > 0 THEN statusList[1] ELSE "" >>

\* lines 99-102: "if cpu, err := p.CPUPercent(); err == nil { ...Set(cpu) }"
SetCpu(vec, cur, cpu) ==
    IF cpu.err THEN vec ELSE SetSeries(vec, cur.labels, cpu.val)

\* the memory update nested in the CPU read's success branch
SetMemWhenCpuRead(vec, cur, mem) ==
    IF mem.err \/ cur.cpuErr THEN vec ELSE SetSeries(vec, cur.labels, RssToMB(mem.val))

\* lines 104-108: "if mem, err := p.MemoryInfo(); err == nil { ...Set(rss/1024/1024) }"
SetMem(vec, cur, mem) ==
    IF mem.err THEN vec ELSE SetSeries(vec, cur.labels, RssToMB(mem.val))

\* lines 71-102: the loop visits the next process, reads its label fields and
\* its CPU percent, and sets the cpu_percent series when that read succeeded
VisitProcess(c, env) ==
    /\ call[c].pc = "loop"
    /\ call[c].procs # <<>>
    /\ \E name \in env.name, username \in env.username, cmdline \in env.cmdline,
          status \in env.status, cpu \in env.cpu :
          LET pid == Head(call[c].procs)
              cur == [pid |-> pid,
                      labels |-> LabelsOf(pid, name, username, cmdline, status),
                      nameErr |-> name.err, usernameErr |-> username.err,
                      cmdlineErr |-> cmdline.err, statusErr |-> status.err,
                      cpuErr |-> cpu.err]
          IN  /\ cpuPercent' = SetCpu(cpuPercent, cur, cpu)
              /\ call' = [call EXCEPT ![c].pc = "memory", ![c].cur = cur]
    /\ UNCHANGED <<memoryMB, webVars, fn>>

\* lines 104-109: the memory read of the same process, and the memory_mb series
VisitMemory(c, env) ==
    /\ call[c].pc = "memory"
    /\ \E mem \in env.mem :
          LET cur == call[c].cur
          IN  /\ memoryMB' = SetMem(memoryMB, cur, mem)
              /\ call' = [call EXCEPT
                            ![c].pc = "loop",
                            ![c].procs = Tail(call[c].procs),
                            ![c].cur = Nil,
                            ![c].reads = Append(call[c].reads,
                                                [pid |-> cur.pid, labels |-> cur.labels,
                                                 nameErr |-> cur.nameErr,
                                                 usernameErr |-> cur.usernameErr,
                                                 cmdlineErr |-> cur.cmdlineErr,
                                                 statusErr |-> cur.statusErr,
                                                 cpuErr |-> cur.cpuErr, memErr |-> mem.err])]
    /\ UNCHANGED <<cpuPercent, webVars, fn>>

\* line 111: c.cpuPercent.Collect(ch)
CollectCpu(c) ==
    /\ call[c].pc = "loop"
    /\ call[c].procs = <<>>
    /\ call' = [call EXCEPT ![c].pc = "collectMem",
                            ![c].out = call[c].out \cup CollectVec("cpu_percent", cpuPercent)]
    /\ UNCHANGED <<cpuPercent, memoryMB, webVars, fn>>

\* lines 112-114: c.memoryMB.Collect(ch); return nil
CollectMem(c) ==
    /\ call[c].pc = "collectMem"
    /\ call' = [call EXCEPT ![c].pc = "returned",
                            ![c].out = call[c].out \cup CollectVec("memory_mb", memoryMB)]
    /\ UNCHANGED <<cpuPercent, memoryMB, webVars, fn>>

\* the caller has taken the result; the next scrape calls Collect afresh
Release(c) ==
    /\ call[c].pc = "returned"
    /\ call' = [call EXCEPT ![c] = IdleCall]
    /\ UNCHANGED <<cpuPercent, memoryMB, webVars, fn>>

StaleSeries == Keys("cpu_percent", cpuPercent) \cup Keys("memory_mb", memoryMB)

\* one step of invocation c of Collect
CollectStep(c, env, W) ==
    \/ ResetCpu(c, W)
    \/ ResetMem(c)
    \/ ListProcesses(c)
    \/ VisitProcess(c, env)
    \/ VisitMemory(c, env)
    \/ CollectCpu(c)
    \/ CollectMem(c)
    \/ Release(c)

\* scrapes arrive one after the other: a single caller, cycle after cycle
ProcNext == CollectStep(1, FullEnv, {})
CycleNext == CollectStep(1, NameEnv, StaleSeries)
\* two scrapes at once on the same collector instance
ConcNext == \E c \in Callers : CollectStep(c, CalmEnv, {})

-----------------------------------------------------------------------------
(* GinWebAppCollector.                                                     *)
(*                                                                         *)
(* Build runs once, before any Collect.  Collect samples its three sources *)
(* one after the other; each source's section is one step.  The channel ch *)
(* is the sequence of the measurements pushed, in order.                   *)

AspNetPrimary == "ASP.NET Applications"
AspNetFallback == "ASP.NET v4.0.30319"
ProcessObject == "Process"
NetClrObject == ".NET CLR Memory"
PerfObjects == {AspNetPrimary, AspNetFallback, ProcessObject, NetClrObject}

\* a nil *pdh.Collector
NilCollector == [nil |-> TRUE, object |-> ""]

\* pdh.NewCollector(object): a collector handle, or (nil, err) when the
\* object cannot be opened on this host
NewCollector(avail, object) ==
    IF object \in avail THEN [nil |-> FALSE, object |-> object] ELSE NilCollector

\* the versioned name is never tried
ResolveAspNetPrimaryOnly(avail) ==
    [handle |-> NewCollector(avail, AspNetPrimary), attempts |-> <<AspNetPrimary>>]

\* lines 74-91: the generic object name, then the versioned one if that failed
ResolveAspNet(avail) ==
    IF NewCollector(avail, AspNetPrimary) # NilCollector
    THEN [handle |-> NewCollector(avail, AspNetPrimary), attempts |-> <<AspNetPrimary>>]
    ELSE [handle |-> NewCollector(avail, AspNetFallback),
          attempts |-> <<AspNetPrimary, AspNetFallback>>]

\* the source is nil and its section is skipped
NotSampled == [sampled |-> FALSE, err |-> FALSE, records |-> <<>>]
SampleFailed == [sampled |-> TRUE, err |-> TRUE, records |-> <<>>]
Sampled(rs) == [sampled |-> TRUE, err |-> FALSE, records |-> rs]

WebInit ==
    /\ aspNetColl = NilCollector
    /\ processColl = NilCollector
    /\ netClrColl = NilCollector
    /\ web = [ pc       |-> "new",
               avail    |-> {},      \* history: the objects this host can open
               attempts |-> <<>>,    \* history: the object names NewCollector was called with
               buildErr |-> "none",  \* what Build returned
               samples  |-> [aspnet |-> NotSampled, process |-> NotSampled,
                             netclr |-> NotSampled],
                                     \* history: what each source returned this cycle
               out      |-> <<>>,    \* the measurements pushed to ch this cycle
               err      |-> Nil ]    \* what Collect returned, once returned

\* lines 68-117
Build ==
    /\ web.pc = "new"
    /\ \E avail \in SUBSET PerfObjects :
          LET asp == ResolveAspNet(avail)
          IN  /\ aspNetColl' = asp.handle
              /\ processColl' = NewCollector(avail, ProcessObject)
              /\ netClrColl' = NewCollector(avail, NetClrObject)
              /\ web' = [web EXCEPT !.pc = "idle",
                                    !.avail = avail,
                                    !.attempts = asp.attempts \o <<ProcessObject, NetClrObject>>,
                                    !.buildErr = Nil]
    /\ UNCHANGED <<procVars, fn>>

\* one measurement on ch; src and inst record the raw record it was made from
Metric(name, kind, labels, value, src, inst) ==
    [metric |-> name, kind |-> kind, labels |-> labels, value |-> value,
     src |-> src, inst |-> inst]

\* instance names a sample of the ASP.NET object may hold
MyApp == <<"M","y","A","p","p">>
AspNetInstances ==
    { RootSiteToken \o MyApp,
      MyApp,
      SiteToken \o <<"2">>,
      SitePrefix \o <<"2">>,
      <<"_","_","T","o","t","a","l","_","_">> }
ProcessInstances == {<<"w","3","w","p">>, <<"w","3","w","p","#","1">>}
NetClrInstances ==
    { <<"w","3","w","p">>,
      <<"_","G","l","o","b","a","l","_">>,
      <<"_","g","l","o","b","a","l","_">> }
IDProcessValues == {Finite(FALSE, 4123, 0), Finite(TRUE, 1, 0)}

RECURSIVE DistinctSeqs(_, _)
\* the sequences of at most n pairwise distinct elements of S
DistinctSeqs(S, n) ==
    IF n = 0 THEN {<<>>}
    ELSE LET shorter == DistinctSeqs(S, n - 1)
         IN  {<<>>} \cup {<<p[1]>> \o p[2] :
                            p \in {q \in S \X shorter : \A i \in 1..Len(q[2]) : q[2][i] # q[1]}}

\* the counter values of a record do not decide any branch: one reading each
AspNetRecord(name) ==
    [Name |-> name, RequestsSec |-> 42, RequestsExecuting |-> 3, RequestsTotal |-> 1000]
ProcessRecord(name, id) ==
    [Name |-> name, PercentProcessorTime |-> 7, WorkingSetPrivate |-> 4096,
     IOReadBytesSec |-> 10, IOWriteBytesSec |-> 5, IDProcess |-> id]
NetClrRecord(name) ==
    [Name |-> name, PercentTimeInGC |-> 2, BytesInAllHeaps |-> 8192]

MapSeq(s, F(_)) == [i \in 1..Len(s) |-> F(s[i])]

\* pdh.Collector.Collect(&data): an error, or one record per instance
AspNetSamples ==
    {SampleFailed}
    \cup {Sampled(MapSeq(ns, AspNetRecord)) : ns \in DistinctSeqs(AspNetInstances, MaxRecords)}
ProcessSamples ==
    {SampleFailed}
    \cup UNION {{Sampled([i \in 1..Len(ns) |-> ProcessRecord(ns[i], ids[i])]) :
                    ids \in [1..Len(ns) -> IDProcessValues]} :
                ns \in DistinctSeqs(ProcessInstances, MaxRecords)}
NetClrSamples ==
    {SampleFailed}
    \cup {Sampled(MapSeq(ns, NetClrRecord)) : ns \in DistinctSeqs(NetClrInstances, MaxRecords)}

\* lines 145-176: the three measurements of one ASP.NET record
EmitAspNet(d) ==
    LET labelName == normalizeAspNetInstanceName(d.Name)
    IN  << Metric("windows_ginwebapp_requests_sec", "gauge",
                  <<labelName>>, d.RequestsSec, "aspnet", d.Name),
           Metric("windows_ginwebapp_requests_executing", "gauge",
                  <<labelName>>, d.RequestsExecuting, "aspnet", d.Name),
           Metric("windows_ginwebapp_requests_total", "counter",
                  <<labelName>>, d.RequestsTotal, "aspnet", d.Name) >>

\* lines 187-218: the three measurements of one Process record, pid being
\* the string formatPID(d.IDProcess) returned
EmitProcess(d, pid) ==
    << Metric("windows_ginwebapp_process_cpu_percent", "gauge",
              <<d.Name, pid>>, d.PercentProcessorTime, "process", d.Name),
       Metric("windows_ginwebapp_process_memory_bytes", "gauge",
              <<d.Name, pid>>, d.WorkingSetPrivate, "process", d.Name),
       Metric("windows_ginwebapp_process_io_bytes_sec", "gauge",
              <<d.Name, pid>>, d.IOReadBytesSec + d.IOWriteBytesSec, "process", d.Name) >>

\* lines 233-252: the two measurements of one .NET CLR record
EmitNetClr(d) ==
    << Metric("windows_ginwebapp_dotnet_gc_time_percent", "gauge",
              <<d.Name>>, d.PercentTimeInGC, "netclr", d.Name),
       Metric("windows_ginwebapp_dotnet_heap_bytes", "gauge",
              <<d.Name>>, d.BytesInAllHeaps, "netclr", d.Name) >>

RECURSIVE AspNetLoop(_)
\* lines 137-177
AspNetLoop(records) ==
    IF records = <<>> THEN <<>>
    ELSE (IF IsAspNetTotal(Head(records).Name) THEN <<>> ELSE EmitAspNet(Head(records)))
         \o AspNetLoop(Tail(records))

RECURSIVE ProcessLoop(_, _)
\* lines 185-219; pids[i] is what formatPID returned for the i-th record
ProcessLoop(records, pids) ==
    IF records = <<>> THEN <<>>
    ELSE EmitProcess(Head(records), Head(pids)) \o ProcessLoop(Tail(records), Tail(pids))

RECURSIVE NetClrLoop(_)
\* lines 227-253
NetClrLoop(records) ==
    IF records = <<>> THEN <<>>
    ELSE (IF IsClrGlobal(Head(records).Name) THEN <<>> ELSE EmitNetClr(Head(records)))
         \o NetClrLoop(Tail(records))

\* a failed sample ends the cycle: the remaining sources are not sampled
AfterSampleAborting(sample, next) == IF sample.err THEN "returned" ELSE next

\* lines 136, 184, 226: "if err := coll.Collect(&data); err == nil { ... }" has
\* no else branch: after a failed sample Collect goes on to the next section
AfterSample(sample, next) == next

\* lines 132-179: Collect is entered; section 1, the ASP.NET source
CollectAspNet ==
    /\ web.pc = "idle"
    /\ \E sample \in (IF aspNetColl # NilCollector THEN AspNetSamples ELSE {NotSampled}) :
          web' = [web EXCEPT
                    !.pc = IF ~sample.sampled THEN "process" ELSE AfterSample(sample, "process"),
                    !.samples = [aspnet |-> sample, process |-> NotSampled,
                                 netclr |-> NotSampled],
                    !.out = IF ~sample.sampled \/ sample.err THEN <<>>
                            ELSE AspNetLoop(sample.records)]
    /\ UNCHANGED <<aspNetColl, processColl, netClrColl, procVars, fn>>

\* lines 181-221: section 2, the Process source
CollectProcess ==
    /\ web.pc = "process"
    /\ \E sample \in (IF processColl # NilCollector THEN ProcessSamples ELSE {NotSampled}) :
          IF ~sample.sampled \/ sample.err
          THEN web' = [web EXCEPT
                         !.pc = IF ~sample.sampled THEN "netclr"
                                ELSE AfterSample(sample, "netclr"),
                         !.samples.process = sample]
          ELSE \E pids \in [1..Len(sample.records) ->
                               UNION {formatPID(f) : f \in IDProcessValues}] :
                  /\ \A i \in 1..Len(sample.records) :
                        pids[i] \in formatPID(sample.records[i].IDProcess)
                  /\ web' = [web EXCEPT
                               !.pc = AfterSample(sample, "netclr"),
                               !.samples.process = sample,
                               !.out = web.out \o ProcessLoop(sample.records, pids)]
    /\ UNCHANGED <<aspNetColl, processColl, netClrColl, procVars, fn>>

\* lines 223-257: section 3, the .NET CLR source; return nil
CollectNetClr ==
    /\ web.pc = "netclr"
    /\ \E sample \in (IF netClrColl # NilCollector THEN NetClrSamples ELSE {NotSampled}) :
          web' = [web EXCEPT
                    !.pc = "returned",
                    !.samples.netclr = sample,
                    !.out = IF ~sample.sampled \/ sample.err THEN web.out
                            ELSE web.out \o NetClrLoop(sample.records),
                    !.err = Nil]
    /\ UNCHANGED <<aspNetColl, processColl, netClrColl, procVars, fn>>

\* the caller has taken the cycle's measurements; the next scrape calls
\* Collect afresh, with an empty channel
Scraped ==
    /\ web.pc = "returned"
    /\ web' = [web EXCEPT !.pc = "idle",
                          !.samples = [aspnet |-> NotSampled, process |-> NotSampled,
                                       netclr |-> NotSampled],
                          !.out = <<>>,
                          !.err = Nil]
    /\ UNCHANGED <<aspNetColl, processColl, netClrColl, procVars, fn>>

WebNext == Build \/ CollectAspNet \/ CollectProcess \/ CollectNetClr \/ Scraped

-----------------------------------------------------------------------------
(* Specifications.                                                         *)

Init == ProcInit /\ WebInit /\ FnInit

\* GinProcessCollector, scrapes one after the other, every read outcome
SpecProc == Init /\ [][ProcNext]_vars
\* GinProcessCollector, scrapes one after the other, remembering a stale series
SpecCycle == Init /\ [][CycleNext]_vars
\* GinProcessCollector, two scrapes at once
SpecConc == Init /\ [][ConcNext]_vars
\* GinWebAppCollector
SpecWeb == Init /\ [][WebNext]_vars
\* the pure functions
SpecFn == Init /\ [][FnNext]_vars

ProcUntouched == cpuPercent = {} /\ memoryMB = {} /\ \A c \in Callers : call[c] = IdleCall
WebUntouched == web.pc = "new"

\* both collectors of the exporter; they share no state, and a behaviour
\* exercises one of them
Next ==
    \/ WebUntouched /\ ProcNext
    \/ ProcUntouched /\ WebNext
Spec == Init /\ [][Next]_vars

-----------------------------------------------------------------------------
(* Claims about GinProcessCollector.                                       *)

\* what one Collect that read `reads` pushes when it runs alone: one
\* cpu_percent series per process whose CPU read succeeded, one memory_mb
\* series per process whose memory read succeeded
AloneOutput(reads) ==
    {[metric |-> "cpu_percent", labels |-> reads[i].labels, value |-> CpuReading] :
        i \in {j \in 1..Len(reads) : ~reads[j].cpuErr}}
    \cup
    {[metric |-> "memory_mb", labels |-> reads[i].labels, value |-> RssToMB(RssReading)] :
        i \in {j \in 1..Len(reads) : ~reads[j].memErr}}

KeysOf(ms) == {[metric |-> m.metric, labels |-> m.labels] : m \in ms}

\* C1: when two Collect calls on the same collector have both returned nil and
\* read the same process snapshot (the same processes with the same read
\* outcomes), each has pushed exactly the measurements it would push alone.
C1_ConcurrentCollectsIsolated ==
    \A c \in Callers : \A d \in Callers \ {c} :
        ( /\ call[c].pc = "returned" /\ call[c].err = Nil
          /\ call[d].pc = "returned" /\ call[d].err = Nil
          /\ call[c].reads = call[d].reads )
        => call[c].out = AloneOutput(call[c].reads)

\* C2: when a Collect call of a sequence of calls returns, its output holds
\* only label tuples set during this call; a series the vectors held when the
\* call began (set by the cycle before) and that no process of this cycle
\* yields with a successful read is absent from the output, for cpu_percent and
\* for memory_mb.
C2_ResetPerCycle ==
    \A c \in Callers :
        call[c].pc = "returned" =>
            /\ KeysOf(call[c].out) \subseteq KeysOf(AloneOutput(call[c].reads))
            /\ call[c].stale \notin KeysOf(AloneOutput(call[c].reads))
                  => call[c].stale \notin KeysOf(call[c].out)

\* a cycle has returned measurements, and a series of the cycle before, not set
\* again, is not among them
C2_Witness ==
    /\ call[1].pc = "returned"
    /\ call[1].stale # NoSeries
    /\ call[1].stale \notin KeysOf(AloneOutput(call[1].reads))
    /\ call[1].stale \notin KeysOf(call[1].out)
    /\ call[1].out # {}

\* C8: when Collect returns nil, every listed process was visited, and for each
\* the cpu_percent measurement is in the output exactly if its CPU read
\* succeeded and the memory_mb measurement exactly if its memory read
\* succeeded, whatever the other reads of that or of any other process did.
C8_FieldFailureOmitsOnlyThatMeasurement ==
    \A c \in Callers :
        (call[c].pc = "returned" /\ call[c].err = Nil) =>
            /\ Len(call[c].reads) = Len(call[c].listed.procs)
            /\ \A i \in 1..Len(call[c].reads) :
                  LET r == call[c].reads[i]
                      emitted(metric) ==
                          \E m \in call[c].out :
                              m.metric = metric /\ m.labels[1] = Itoa(r.pid)
                  IN  /\ r.pid = call[c].listed.procs[i]
                      /\ emitted("cpu_percent") <=> ~r.cpuErr
                      /\ emitted("memory_mb") <=> ~r.memErr

\* two processes: every label read and the CPU read of the first failed and
\* its memory_mb is emitted alone; the memory read of the second failed and its
\* cpu_percent is emitted alone
C8_Witness ==
    /\ call[1].pc = "returned"
    /\ Len(call[1].reads) = 2
    /\ LET r == call[1].reads[1]
           q == call[1].reads[2]
       IN  /\ r.nameErr /\ r.usernameErr /\ r.cmdlineErr /\ r.statusErr
           /\ r.cpuErr /\ ~r.memErr
           /\ ~q.cpuErr /\ q.memErr
           /\ KeysOf(call[1].out) =
                 { [metric |-> "memory_mb", labels |-> r.labels],
                   [metric |-> "cpu_percent", labels |-> q.labels] }

-----------------------------------------------------------------------------
(* Claims about GinWebAppCollector.                                        *)

Sources == {"aspnet", "process", "netclr"}

Handle(src) ==
    IF src = "aspnet" THEN aspNetColl
    ELSE IF src = "process" THEN processColl ELSE netClrColl

\* the (metric, value) pairs a record of a source is to yield
Expected(src, r) ==
    IF src = "aspnet"
    THEN { <<"windows_ginwebapp_requests_sec", r.RequestsSec>>,
           <<"windows_ginwebapp_requests_executing", r.RequestsExecuting>>,
           <<"windows_ginwebapp_requests_total", r.RequestsTotal>> }
    ELSE IF src = "process"
    THEN { <<"windows_ginwebapp_process_cpu_percent", r.PercentProcessorTime>>,
           <<"windows_ginwebapp_process_memory_bytes", r.WorkingSetPrivate>>,
           <<"windows_ginwebapp_process_io_bytes_sec", r.IOReadBytesSec + r.IOWriteBytesSec>> }
    ELSE { <<"windows_ginwebapp_dotnet_gc_time_percent", r.PercentTimeInGC>>,
           <<"windows_ginwebapp_dotnet_heap_bytes", r.BytesInAllHeaps>> }

\* the record is dropped by its source's own instance filter
Filtered(src, r) ==
    \/ src = "aspnet" /\ IsAspNetTotal(r.Name)
    \/ src = "netclr" /\ IsClrGlobal(r.Name)

\* C3: when Collect returns it returns nil, every live source was sampled, and
\* every source whose sample succeeded has each measurement of each of its
\* non-filtered records on the channel, whatever the other sources' samples did.
C3_SampleFailureIsPerSource ==
    web.pc = "returned" =>
        /\ web.err = Nil
        /\ \A src \in Sources :
              /\ Handle(src) # NilCollector => web.samples[src].sampled
              /\ (web.samples[src].sampled /\ ~web.samples[src].err) =>
                    \A k \in 1..Len(web.samples[src].records) :
                        LET r == web.samples[src].records[k]
                        IN  ~Filtered(src, r) =>
                               \A e \in Expected(src, r) :
                                  \E i \in 1..Len(web.out) :
                                     /\ web.out[i].src = src
                                     /\ web.out[i].inst = r.Name
                                     /\ web.out[i].metric = e[1]
                                     /\ web.out[i].value = e[2]

\* the ASP.NET and the .NET CLR samples failed, the Process sample did not, and
\* its records are on the channel
C3_Witness ==
    /\ web.pc = "returned"
    /\ web.samples.aspnet.sampled /\ web.samples.aspnet.err
    /\ web.samples.netclr.sampled /\ web.samples.netclr.err
    /\ web.samples.process.sampled /\ ~web.samples.process.err
    /\ Len(web.samples.process.records) = 2
    /\ Len(web.out) = 6

FoldedGlobalMarker == ToLower(GlobalMarker)

\* the identity holds, in any letter case, the counter-total marker or the
\* CLR global marker
HasAggregateMarker(name) ==
    \/ Contains(ToLower(name), TotalMarker)
    \/ Contains(ToLower(name), FoldedGlobalMarker)

\* C4: no measurement on the channel was made from a record whose instance
\* identity holds, case-insensitively, "__total__" or "_Global_".
C4_AggregateInstancesSkipped ==
    \A i \in 1..Len(web.out) : ~HasAggregateMarker(web.out[i].inst)

\* the object name each source's handle is to hold, given the objects the host
\* can open: the first of the source's names, in order, that opens
ResolvedObject(src) ==
    IF src = "aspnet"
    THEN IF AspNetPrimary \in web.avail THEN AspNetPrimary
         ELSE IF AspNetFallback \in web.avail THEN AspNetFallback ELSE ""
    ELSE IF src = "process"
    THEN IF ProcessObject \in web.avail THEN ProcessObject ELSE ""
    ELSE IF NetClrObject \in web.avail THEN NetClrObject ELSE ""

\* C6: from the end of Build on and through every Collect cycle: Build returned
\* nil; the names tried are the ASP.NET primary, its fallback only if the
\* primary failed, then Process and .NET CLR Memory, and none is tried again;
\* each source is Live on the first of its names that opened, or nil if none
\* did; and a cycle samples exactly the Live sources it has reached.
C6_ResolutionIsOneShot ==
    web.pc # "new" =>
        /\ web.buildErr = Nil
        /\ web.attempts =
              (IF AspNetPrimary \in web.avail THEN <<AspNetPrimary>>
               ELSE <<AspNetPrimary, AspNetFallback>>) \o <<ProcessObject, NetClrObject>>
        /\ \A src \in Sources :
              /\ Handle(src).nil <=> ResolvedObject(src) = ""
              /\ Handle(src).object = ResolvedObject(src)
              /\ web.samples[src].sampled => ~Handle(src).nil
        /\ web.pc = "returned" =>
              \A src \in Sources : ~Handle(src).nil => web.samples[src].sampled

\* the ASP.NET primary name failed and the fallback opened, the Process object
\* did not open; a cycle has sampled the ASP.NET source and not the Process one
C6_Witness ==
    /\ web.pc = "returned"
    /\ web.attempts = <<AspNetPrimary, AspNetFallback, ProcessObject, NetClrObject>>
    /\ aspNetColl = [nil |-> FALSE, object |-> AspNetFallback]
    /\ processColl = NilCollector
    /\ web.samples.aspnet.sampled /\ Len(web.samples.aspnet.records) > 0
    /\ ~web.samples.process.sampled

\* C9: no two measurements of one cycle carry the same metric name and the
\* same label values (the instance identities of a sample being distinct).
C9_SeriesUniquePerCycle ==
    \A i \in 1..Len(web.out) : \A j \in 1..Len(web.out) :
        (i # j /\ web.out[i].metric = web.out[j].metric)
            => web.out[i].labels # web.out[j].labels

-----------------------------------------------------------------------------
(* Claim about both collectors.                                            *)

\* C7: a Collect of GinProcessCollector that has returned has returned an
\* error exactly if process.Processes() failed, and then has pushed nothing;
\* a Collect of GinWebAppCollector that has returned has returned nil.
C7_OnlyEnumerationFailureIsAnError ==
    /\ \A c \in Callers :
          call[c].pc = "returned" =>
              /\ call[c].listed.called
              /\ call[c].err # Nil <=> call[c].listed.err
              /\ call[c].err # Nil => call[c].out = {}
    /\ web.pc = "returned" => web.err = Nil

\* the listing failed: the error is returned and nothing is pushed
C7_Witness ==
    /\ call[1].pc = "returned"
    /\ call[1].listed.err
    /\ call[1].err = "EnumerationFailure"
    /\ call[1].out = {}

-----------------------------------------------------------------------------
(* Claims about the pure functions.                                        *)

\* C5: normalizeAspNetInstanceName rewrites a prefix only: the root-site token
\* at the start is removed, else the site token at the start becomes "site_",
\* and the rest of the identity, or an identity starting with neither, is
\* unchanged.
C5_PrefixRewrite ==
    fn.name = "normalizeAspNetInstanceName" =>
        fn.res = IF HasPrefix(fn.arg, RootSiteToken)
                 THEN Drop(fn.arg, Len(RootSiteToken))
                 ELSE IF HasPrefix(fn.arg, SiteToken)
                 THEN SitePrefix \o Drop(fn.arg, Len(SiteToken))
                 ELSE fn.arg

RECURSIVE DigitsLE(_)
\* the decimal digits of n, least significant first
DigitsLE(n) == IF n < 10 THEN <<n>> ELSE <<n % 10>> \o DigitsLE(n \div 10)

RECURSIVE DoubleLE(_, _)
\* twice a decimal number given least significant digit first, plus carry
DoubleLE(ds, carry) ==
    IF ds = <<>> THEN (IF carry = 0 THEN <<>> ELSE <<carry>>)
    ELSE LET v == 2 * Head(ds) + carry
         IN  <<v % 10>> \o DoubleLE(Tail(ds), v \div 10)

RECURSIVE TimesPow2(_, _)
\* ds * 2^e; the doubled number is computed before the next doubling starts
TimesPow2(ds, e) ==
    IF e = 0 THEN ds
    ELSE LET doubled == DoubleLE(ds, 0)
         IN  IF Len(doubled) > 0 THEN TimesPow2(doubled, e - 1) ELSE <<>>

\* the decimal rendering of |f| truncated toward zero, whatever its size
TruncatedDecimal(f) ==
    LET le == IF f.exp < 0 THEN DigitsLE(f.mant \div Pow2(-f.exp))
              ELSE TimesPow2(DigitsLE(f.mant), f.exp)
    IN  [i \in 1..Len(le) |-> DigitChar(le[Len(le) + 1 - i])]

RECURSIVE BitLen(_)
BitLen(m) == IF m = 0 THEN 0 ELSE 1 + BitLen(m \div 2)

\* f < 2^64
BelowTwoTo64(f) == f.mant = 0 \/ BitLen(f.mant) + f.exp <= 64

NoSignNoPoint(s) == \A i \in 1..Len(s) : s[i] # "-" /\ s[i] # "."

\* C10 as stated: for every non-negative float input formatPID returns the
\* decimal rendering of its truncation toward zero, and no output holds a
\* minus sign or a decimal point.
C10_TruncationForEveryNonNegative ==
    fn.name = "formatPID" =>
        /\ (fn.arg.kind = "finite" /\ ~fn.arg.neg) => fn.res = TruncatedDecimal(fn.arg)
        /\ NoSignNoPoint(fn.res)

\* C10 amended: for every finite non-negative float input below 2^64
\* formatPID returns the decimal rendering of its truncation toward zero, and
\* for every input the output holds no minus sign and no decimal point.
C10_TruncationBelowTwoTo64 ==
    fn.name = "formatPID" =>
        /\ (fn.arg.kind = "finite" /\ ~fn.arg.neg /\ BelowTwoTo64(fn.arg))
              => fn.res = TruncatedDecimal(fn.arg)
        /\ NoSignNoPoint(fn.res)

\* 4123 * 2^-2 = 1030.75 gives "1030"
C10_Witness ==
    /\ fn.name = "formatPID"
    /\ fn.arg = Finite(FALSE, 4123, -2)
    /\ fn.res = <<"1","0","3","0">>

====
